---- MODULE Spec2Model ----
(***************************************************************************)
(* FocusManager (utils/focusmanager.js): tracks whether one of a group of  *)
(* registered elements is focused.  The manager's fields, the listeners    *)
(* it holds on the elements, and the host's queue of pending setTimeout    *)
(* callbacks are the state; add, remove, the two notification handlers and *)
(* the timer callback are the actions.                                     *)
(***************************************************************************)
EXTENDS Integers, Sequences, FiniteSets, TLC

\* Number of distinct element handles the callers use.
NumElements == 2

\* Number of setTimeout calls made in one run (timer ids are 1..MaxTimers).
MaxTimers == 3

Elements == 1..NumElements

\* JavaScript null, for _focusedElement and _nextEventLoopTimeout.
Null == 0

VARIABLES
    isFocused,              \* this.isFocused
    _elements,              \* this._elements, an array
    _nextEventLoopTimeout,  \* this._nextEventLoopTimeout, a timer id or null
    _focusedElement,        \* this._focusedElement, an element or null
    listeners,              \* element -> number of (focus, blur) listener pairs attached by listenTo
    timers,                 \* the host's queue of pending zero-delay timeouts, oldest first
    nextTimerId,            \* the id the next setTimeout call returns
    last,                   \* the step taken last: operation, argument, whether it threw, _focusedElement before it
    focusReported,          \* a listened focus was handled and no timer callback has run since
    envDone,                \* the callers and the DOM have stopped issuing operations and notifications
    handoff                 \* progress of a focus( from ), blur( from ), focus( to ) burst; see Handoff

mgrVars == <<isFocused, _elements, _nextEventLoopTimeout, _focusedElement, listeners, timers, nextTimerId>>

vars == <<isFocused, _elements, _nextEventLoopTimeout, _focusedElement, listeners, timers,
          nextTimerId, last, focusReported, envDone, handoff>>

Range(s) == {s[i] : i \in 1..Len(s)}

\* Array.prototype.indexOf: zero-based index of the first occurrence, or -1.
indexOf(arr, x) ==
    IF \E i \in 1..Len(arr) : arr[i] = x
    THEN (CHOOSE i \in 1..Len(arr) : arr[i] = x /\ \A j \in 1..(i - 1) : arr[j] # x) - 1
    ELSE -1

\* Array.prototype.slice( begin, end ): a NEW array holding arr[begin..end-1]
\* (zero-based, end exclusive); the receiver is not modified.
slice(arr, begin, end) ==
    LET lo == IF begin > Len(arr) THEN Len(arr) ELSE begin
        hi == IF end > Len(arr) THEN Len(arr) ELSE end
    IN  IF hi <= lo THEN <<>> ELSE SubSeq(arr, lo + 1, hi)

\* The fields that _focus, _blur and the timer callback read and write.
M == [isFocused |-> isFocused,
      focusedElement |-> _focusedElement,
      nextEventLoopTimeout |-> _nextEventLoopTimeout,
      timers |-> timers,
      nextTimerId |-> nextTimerId]

Commit(m) ==
    /\ isFocused' = m.isFocused
    /\ _focusedElement' = m.focusedElement
    /\ _nextEventLoopTimeout' = m.nextEventLoopTimeout
    /\ timers' = m.timers
    /\ nextTimerId' = m.nextTimerId

\* clearTimeout( id ): the pending timeout with that id, if any, is dropped.
clearTimeout(queue, id) == SelectSeq(queue, LAMBDA t : t # id)

\* _focus that sets the flag but forgets to record the element.
_focus_forgetsElement(m, element) ==
    [m EXCEPT !.timers = clearTimeout(@, m.nextEventLoopTimeout),
              !.isFocused = TRUE]

\* _focus( element )
_focus(m, element) ==
    [m EXCEPT !.timers = clearTimeout(@, m.nextEventLoopTimeout),
              !.focusedElement = element,
              !.isFocused = TRUE]

\* _blur that schedules nothing.
_blur_noTimeout(m) == m

\* _blur that also clears the focus state in the same call.
_blur_clearsAtOnce(m) ==
    [m EXCEPT !.timers = Append(@, m.nextTimerId),
              !.nextEventLoopTimeout = m.nextTimerId,
              !.nextTimerId = @ + 1,
              !.focusedElement = Null,
              !.isFocused = FALSE]

\* _blur(): setTimeout( callback, 0 ) and keep the id it returns.
_blur(m) ==
    [m EXCEPT !.timers = Append(@, m.nextTimerId),
              !.nextEventLoopTimeout = m.nextTimerId,
              !.nextTimerId = @ + 1]

\* A timer callback that clears the element but leaves the flag set.
blurCallback_keepsFlag(m) ==
    [m EXCEPT !.focusedElement = Null]

\* A timer callback that clears the flag but leaves the element recorded.
blurCallback_keepsElement(m) ==
    [m EXCEPT !.isFocused = FALSE]

\* The arrow function that _blur hands to setTimeout.
blurCallback(m) ==
    [m EXCEPT !.focusedElement = Null,
              !.isFocused = FALSE]

\* A focus event on an element runs every focus listener attached to it.
RECURSIVE fireFocus(_, _, _)
fireFocus(n, m, element) ==
    IF n = 0 THEN m ELSE fireFocus(n - 1, _focus(m, element), element)

\* A blur event on an element runs every blur listener attached to it.
RECURSIVE fireBlur(_, _)
fireBlur(n, m) ==
    IF n = 0 THEN m ELSE fireBlur(n - 1, _blur(m))

Step(op, element, threw) ==
    last' = [op |-> op, el |-> element, threw |-> threw, was |-> _focusedElement]

NoHandoff == [phase |-> 0, from |-> Null, to |-> Null]

\* Phase 1: the listened focus( from ) was the last notification.
\* Phase 2: blur( from ) followed while from was still the focused element.
\* Phase 3: focus( to ) on another listened element followed before any timer ran;
\*          it lasts while nothing but timer callbacks run.
HandoffOnFocus(element) ==
    IF listeners[element] = 0 THEN NoHandoff
    ELSE IF handoff.phase = 2 /\ element # handoff.from
         THEN [phase |-> 3, from |-> handoff.from, to |-> element]
         ELSE [phase |-> 1, from |-> element, to |-> Null]

HandoffOnBlur(element) ==
    IF /\ handoff.phase = 1
       /\ handoff.from = element
       /\ listeners[element] = 1
       /\ isFocused
       /\ _focusedElement = element
    THEN [handoff EXCEPT !.phase = 2]
    ELSE NoHandoff

HandoffOnTimer ==
    IF handoff.phase = 2 THEN NoHandoff ELSE handoff

Init ==
    /\ isFocused = FALSE
    /\ _elements = <<>>
    /\ _nextEventLoopTimeout = Null
    /\ _focusedElement = Null
    /\ listeners = [e \in Elements |-> 0]
    /\ timers = <<>>
    /\ nextTimerId = 1
    /\ last = [op |-> "init", el |-> Null, threw |-> FALSE, was |-> Null]
    /\ focusReported = FALSE
    /\ envDone = FALSE
    /\ handoff = NoHandoff

\* add without the indexOf guard.
add_noDuplicateCheck(element) ==
    /\ ~envDone
    /\ Step("add", element, FALSE)
    /\ listeners' = [listeners EXCEPT ![element] = @ + 1]
    /\ _elements' = Append(_elements, element)
    /\ Len(_elements) < NumElements + 1
    /\ handoff' = NoHandoff
    /\ UNCHANGED <<isFocused, _nextEventLoopTimeout, _focusedElement, timers, nextTimerId,
                   focusReported, envDone>>

\* add whose guard reads indexOf( element ) > 0 and so misses the first entry.
add_indexOfPositive(element) ==
    /\ ~envDone
    /\ Len(_elements) < NumElements + 1
    /\ IF indexOf(_elements, element) > 0
       THEN /\ Step("add", element, TRUE)
            /\ UNCHANGED mgrVars
       ELSE /\ Step("add", element, FALSE)
            /\ listeners' = [listeners EXCEPT ![element] = @ + 1]
            /\ _elements' = Append(_elements, element)
            /\ UNCHANGED <<isFocused, _nextEventLoopTimeout, _focusedElement, timers, nextTimerId>>
    /\ handoff' = NoHandoff
    /\ UNCHANGED <<focusReported, envDone>>

\* add( element )
add(element) ==
    /\ ~envDone
    /\ IF indexOf(_elements, element) >= 0
       THEN /\ Step("add", element, TRUE)
            /\ UNCHANGED mgrVars
       ELSE /\ Step("add", element, FALSE)
            /\ listeners' = [listeners EXCEPT ![element] = @ + 1]
            /\ _elements' = Append(_elements, element)
            /\ UNCHANGED <<isFocused, _nextEventLoopTimeout, _focusedElement, timers, nextTimerId>>
    /\ handoff' = NoHandoff
    /\ UNCHANGED <<focusReported, envDone>>

\* remove that clears the focus state itself instead of calling _blur.
remove_blursAtOnce(element) ==
    /\ ~envDone
    /\ LET m == IF element = _focusedElement THEN blurCallback(M) ELSE M
           elementIndex == indexOf(_elements, element)
       IN  /\ Commit(m)
           /\ listeners' = IF elementIndex > -1
                           THEN [listeners EXCEPT ![element] = 0]
                           ELSE listeners
           /\ _elements' = _elements
    /\ Step("remove", element, FALSE)
    /\ handoff' = NoHandoff
    /\ UNCHANGED <<focusReported, envDone>>

\* remove that leaves the listeners attached.
remove_keepsListening(element) ==
    /\ ~envDone
    /\ element = _focusedElement => nextTimerId <= MaxTimers
    /\ Commit(IF element = _focusedElement THEN _blur(M) ELSE M)
    /\ UNCHANGED <<listeners, _elements>>
    /\ Step("remove", element, FALSE)
    /\ handoff' = NoHandoff
    /\ UNCHANGED <<focusReported, envDone>>

\* remove that calls _blur whatever the element is.
remove_alwaysBlurs(element) ==
    /\ ~envDone
    /\ nextTimerId <= MaxTimers
    /\ LET elementIndex == indexOf(_elements, element)
       IN  /\ Commit(_blur(M))
           /\ listeners' = IF elementIndex > -1
                           THEN [listeners EXCEPT ![element] = 0]
                           ELSE listeners
           /\ _elements' = _elements
    /\ Step("remove", element, FALSE)
    /\ handoff' = NoHandoff
    /\ UNCHANGED <<focusReported, envDone>>

\* remove that calls _blur for every element it finds in _elements.
remove_blursRegistered(element) ==
    /\ ~envDone
    /\ indexOf(_elements, element) > -1 => nextTimerId <= MaxTimers
    /\ LET elementIndex == indexOf(_elements, element)
           m == IF elementIndex > -1 THEN _blur(M) ELSE M
       IN  /\ Commit(m)
           /\ listeners' = IF elementIndex > -1
                           THEN [listeners EXCEPT ![element] = 0]
                           ELSE listeners
           /\ _elements' = _elements
    /\ Step("remove", element, FALSE)
    /\ handoff' = NoHandoff
    /\ UNCHANGED <<focusReported, envDone>>

\* remove that deletes the entry (splice( elementIndex, 1 )).
remove_splices(element) ==
    /\ ~envDone
    /\ element = _focusedElement => nextTimerId <= MaxTimers
    /\ LET m == IF element = _focusedElement THEN _blur(M) ELSE M
           elementIndex == indexOf(_elements, element)
       IN  /\ Commit(m)
           /\ listeners' = IF elementIndex > -1
                           THEN [listeners EXCEPT ![element] = 0]
                           ELSE listeners
           /\ _elements' = IF elementIndex > -1
                           THEN SelectSeq(_elements, LAMBDA x : x # element)
                           ELSE _elements
    /\ Step("remove", element, FALSE)
    /\ handoff' = NoHandoff
    /\ UNCHANGED <<focusReported, envDone>>

\* remove( element )
remove(element) ==
    /\ ~envDone
    /\ element = _focusedElement => nextTimerId <= MaxTimers
    /\ LET m == IF element = _focusedElement THEN _blur(M) ELSE M
           elementIndex == indexOf(_elements, element)
       IN  /\ Commit(m)
           /\ listeners' = IF elementIndex > -1
                           THEN [listeners EXCEPT ![element] = 0]
                           ELSE listeners
           \* this._elements.slice( elementIndex, 1 ) builds a new array, which is
           \* dropped; the receiver keeps every entry
           /\ LET sliced == slice(_elements, elementIndex, 1)
              IN  _elements' = _elements
    /\ Step("remove", element, FALSE)
    /\ handoff' = NoHandoff
    /\ UNCHANGED <<focusReported, envDone>>

\* A focus event reaches the element (captured from its subtree).
focus(element) ==
    /\ ~envDone
    /\ Commit(fireFocus(listeners[element], M, element))
    /\ focusReported' = (focusReported \/ listeners[element] > 0)
    /\ Step("focus", element, FALSE)
    /\ handoff' = HandoffOnFocus(element)
    /\ UNCHANGED <<_elements, listeners, envDone>>

\* A blur event reaches the element (captured from its subtree).
blur(element) ==
    /\ ~envDone
    /\ nextTimerId + listeners[element] - 1 <= MaxTimers
    /\ Commit(fireBlur(listeners[element], M))
    /\ Step("blur", element, FALSE)
    /\ handoff' = HandoffOnBlur(element)
    /\ UNCHANGED <<_elements, listeners, focusReported, envDone>>

\* The host runs the oldest pending timeout.
fireTimer ==
    /\ timers # <<>>
    /\ Commit(blurCallback([M EXCEPT !.timers = Tail(@)]))
    /\ focusReported' = FALSE
    /\ Step("timer", Null, FALSE)
    /\ handoff' = HandoffOnTimer
    /\ UNCHANGED <<_elements, listeners, envDone>>

\* From here on no operation is called and no event is dispatched.
envStop ==
    /\ ~envDone
    /\ envDone' = TRUE
    /\ UNCHANGED <<mgrVars, last, focusReported, handoff>>

Next ==
    \/ \E element \in Elements : add(element)
    \/ \E element \in Elements : remove(element)
    \/ \E element \in Elements : focus(element)
    \/ \E element \in Elements : blur(element)
    \/ fireTimer
    \/ envStop

Spec == Init /\ [][Next]_vars

\* The host's task queue runs every pending timeout.
LiveSpec == Init /\ [][Next]_vars /\ WF_vars(fireTimer)

TypeOK ==
    /\ isFocused \in BOOLEAN
    /\ _focusedElement \in Elements \cup {Null}
    /\ _nextEventLoopTimeout \in 0..MaxTimers
    /\ nextTimerId \in 1..(MaxTimers + 1)
    /\ \A i \in 1..Len(timers) : timers[i] \in 1..MaxTimers
    /\ \A e \in Elements : listeners[e] \in Nat

(***************************************************************************)
(* Properties                                                              *)
(***************************************************************************)

\* The step just taken was the operation op (envStop leaves last alone).
Did(op) == envDone' = envDone /\ last'.op = op

\* The element is tracked: add attached its listeners and no remove detached them.
Registered(e) == listeners[e] > 0

FocusVars == <<isFocused, _focusedElement, _nextEventLoopTimeout, timers, nextTimerId>>

\* C1: handoff.  With E1 and E2 registered and E1 focused, once blur( E1 ) has
\* been delivered isFocused is true, and once focus( E2 ) has followed before a
\* timer ran, isFocused stays true and _focusedElement is E2 however many
\* pending timers run afterwards.
C1_HandoffKeepsFocus ==
    /\ handoff.phase \in {2, 3} => isFocused
    /\ handoff.phase = 3 => _focusedElement = handoff.to

\* C2 as stated: right after remove( E ) of the focused element E returns,
\* isFocused is false and _focusedElement is null.
C2_RemoveFocusedIsImmediate ==
    (last.op = "remove" /\ last.el = last.was) =>
        (~isFocused /\ _focusedElement = Null)

\* C2 amended: remove( E ) of the focused element E only schedules the
\* finalize-blur: when it returns isFocused is still true, _focusedElement is
\* still E and the timeout it has just set is the newest pending one; the flag
\* and the reference are cleared in the step where a timeout runs.
C2_RemoveFocusedDefers ==
    /\ (last.op = "remove" /\ last.el = last.was) =>
           /\ isFocused
           /\ _focusedElement = last.el
           /\ timers # <<>>
           /\ timers[Len(timers)] = _nextEventLoopTimeout
    /\ last.op = "timer" => (~isFocused /\ _focusedElement = Null)

C2_Witness ==
    /\ last.op = "remove"
    /\ last.el = last.was
    /\ isFocused
    /\ Len(timers) = 1

\* C3: at most one deferred finalize-blur is pending in every reachable state.
C3_AtMostOnePending == Len(timers) <= 1

\* C4: remove( E ) takes E out of _elements and keeps every other member.
C4_RemoveDeletes ==
    [][Did("remove") => Range(_elements') = Range(_elements) \ {last'.el}]_vars

\* C5: add( E ) on a registered E throws and changes nothing of the manager
\* (array, listeners, flag, reference, timers); add( E ) on an E that was
\* never added does not throw, appends E and attaches one pair of listeners.
C5_AddDuplicateRejected ==
    [][Did("add") =>
          /\ Registered(last'.el) => (last'.threw /\ UNCHANGED mgrVars)
          /\ last'.el \notin Range(_elements) =>
                /\ ~last'.threw
                /\ _elements' = Append(_elements, last'.el)
                /\ listeners' = [listeners EXCEPT ![last'.el] = 1]
                /\ UNCHANGED FocusVars
      ]_vars

C5_Witness ==
    /\ last.op = "add"
    /\ last.threw
    /\ Registered(last.el)
    /\ isFocused
    /\ timers # <<>>

\* C6: the step that handles a focus notification on a registered element E
\* ends with isFocused true and _focusedElement = E, whatever the state before.
C6_FocusIsSynchronous ==
    (last.op = "focus" /\ Registered(last.el)) =>
        (isFocused /\ _focusedElement = last.el)

\* A focus on a registered element that arrived while another element's blur was pending.
C6_Witness ==
    /\ last.op = "focus"
    /\ Registered(last.el)
    /\ handoff.phase = 3
    /\ last.was # Null
    /\ last.was # last.el
    /\ _focusedElement = last.el

\* C7: once blur( E ) on the focused, registered element E is the last
\* notification and nothing further arrives, the timeouts run and isFocused
\* becomes false and _focusedElement null.
C7_BlurEventuallyFinalized ==
    \A e \in Elements :
        (envDone /\ last.op = "blur" /\ last.el = e /\ last.was = e /\ Registered(e))
            ~> (~isFocused /\ _focusedElement = Null)

C7_Witness ==
    /\ envDone
    /\ last.op = "blur"
    /\ last.el = last.was
    /\ Registered(last.el)
    /\ isFocused

\* C8: remove( E ) leaves E without listeners, E stays without listeners until
\* an add( E ) succeeds, and a focus or blur notification on an element without
\* listeners changes neither isFocused, _focusedElement nor the timers.
C8_RemovedElementIsDeaf ==
    [][/\ Did("remove") => listeners'[last'.el] = 0
       /\ \A e \in Elements :
            (listeners[e] = 0 /\ listeners'[e] # 0) =>
                (Did("add") /\ last'.el = e /\ ~last'.threw)
       /\ \A e \in Elements :
            ((Did("focus") \/ Did("blur")) /\ last'.el = e /\ e \in Range(_elements) /\ ~Registered(e)) =>
                UNCHANGED FocusVars
      ]_vars

\* A notification on a removed element arrived while another element was focused.
C8_Witness ==
    /\ last.op \in {"focus", "blur"}
    /\ last.el \in Range(_elements)
    /\ ~Registered(last.el)
    /\ isFocused
    /\ _focusedElement # last.el

\* C9: remove( E ) on an element that was never added throws nothing and
\* changes nothing of the manager.
C9_RemoveUnknownIsNoOp ==
    [][(Did("remove") /\ last'.el \notin Range(_elements)) =>
          (~last'.threw /\ UNCHANGED mgrVars)]_vars

C9_Witness ==
    /\ last.op = "remove"
    /\ last.el \notin Range(_elements)
    /\ isFocused
    /\ timers # <<>>

\* C10: isFocused is true exactly when a registered element has reported
\* focus and no finalize-blur has run since.
C10_FocusedIffReported == isFocused <=> focusReported

\* A finalize-blur has run, a focus was reported after it and a blur is pending again.
C10_Witness ==
    /\ isFocused
    /\ focusReported
    /\ last.op = "blur"
    /\ _nextEventLoopTimeout > 1
    /\ Len(timers) = 1

\* C11: _elements never holds the same element twice.
C11_NoDuplicateEntries ==
    \A i, j \in 1..Len(_elements) : i # j => _elements[i] # _elements[j]

\* A duplicate add was rejected after every element had been added.
C11_Witness ==
    /\ last.op = "add"
    /\ last.threw
    /\ Len(_elements) >= 2

\* C12: a focus-gain on a registered element cancels every pending
\* finalize-blur: while that focus is the last notification and no remove or
\* add has followed, no timeout is pending and isFocused is true.
C12_FocusCancelsAllPending ==
    handoff.phase \in {1, 3} => (timers = <<>> /\ isFocused)

\* C13: add( E ) throws exactly when E is registered (added and not removed since).
C13_AddThrowsIffRegistered ==
    [][Did("add") => (last'.threw <=> Registered(last'.el))]_vars

\* C14: while an element is focused, a focus-lost notification from another
\* registered element schedules no finalize-blur (the manager stays Focused
\* and does not enter Pending-blur).
C14_BlurFromOtherIsIgnored ==
    [][(/\ Did("blur")
        /\ Registered(last'.el)
        /\ isFocused
        /\ _focusedElement # Null
        /\ last'.el # _focusedElement) =>
          UNCHANGED <<timers, _nextEventLoopTimeout, nextTimerId>>]_vars

\* C15: the step that handles a focus-lost notification changes neither
\* isFocused nor _focusedElement, and isFocused goes from true to false only
\* in a timeout step or a remove of the focused element.
C15_BlurStepKeepsFocusState ==
    [][/\ Did("blur") => UNCHANGED <<isFocused, _focusedElement>>
       /\ (isFocused /\ ~isFocused') =>
             (Did("timer") \/ (Did("remove") /\ last'.el = _focusedElement))
      ]_vars

C15_Witness ==
    /\ last.op = "blur"
    /\ Registered(last.el)
    /\ last.was = last.el
    /\ isFocused
    /\ _focusedElement = last.el
    /\ timers # <<>>

\* C16: isFocused is true exactly when _focusedElement is not null.
C16_FlagMatchesReference == isFocused <=> (_focusedElement # Null)

\* A timeout has just cleared a focused element.
C16_Witness ==
    /\ last.op = "timer"
    /\ last.was # Null
    /\ ~isFocused
    /\ _focusedElement = Null

\* C17: an element has listeners exactly when it is in _elements.
C17_ListenersMatchElements ==
    \A e \in Elements : Registered(e) <=> e \in Range(_elements)

\* C18: a successful add and a remove of a registered element that is not
\* the focused one change neither isFocused, _focusedElement nor the timers.
C18_AddRemoveKeepFocusState ==
    [][(\/ Did("add") /\ ~last'.threw
        \/ Did("remove") /\ Registered(last'.el) /\ last'.el # _focusedElement) =>
          UNCHANGED FocusVars]_vars

\* A registered element was removed while another one was focused with a blur pending.
C18_Witness ==
    /\ last.op = "remove"
    /\ last.el \in Range(_elements)
    /\ last.was # Null
    /\ last.was # last.el
    /\ isFocused
    /\ _focusedElement = last.was
    /\ timers # <<>>

====
